---------------------------- MODULE Spec2Model ----------------------------
(***************************************************************************)
(* The two-hop relay of tinfoilsh/system-prompt-functions-example:         *)
(*   function/main.go  the Body Processor (chatHandler), inside the        *)
(*                     enclave: validates X-Language, injects the system   *)
(*                     prompt, overrides the model, forwards to inference; *)
(*   proxy/main.go     the Edge Relay (proxyHandler), outside: derives     *)
(*                     X-Allowed-Models from X-User-Tier and tunnels the   *)
(*                     opaque body to the enclave named by the caller.     *)
(* One request is followed from its arrival to the end of its handler.     *)
(*                                                                         *)
(* A Go string is a sequence of tokens: single characters where the code   *)
(* looks at characters (the language, the template), opaque chunks         *)
(* elsewhere.  "" is << >>, + is \o, len is Len.                           *)
(***************************************************************************)
EXTENDS Integers, Sequences, FiniteSets, TLC

VARIABLES
    env,           \* the process environment (os.Getenv)
    svc,           \* which handler serves the request
    pc,            \* the handler's position
    r,             \* the inbound *http.Request
    w,             \* the http.ResponseWriter
    logs,          \* lines written with log.Printf / log.Println
    language,      \* chatHandler: language
    body,          \* chatHandler: body, the bytes io.ReadAll returned
    reqBody,       \* chatHandler: reqBody
    systemPrompt,  \* chatHandler: systemPrompt
    modifiedBody,  \* chatHandler: modifiedBody
    req,           \* the upstream request being built (upstreamReq / req)
    sent,          \* the upstream requests handed to http.DefaultClient.Do
    resp,          \* the upstream response
    src,           \* resp.Body: the bytes upstream has still to deliver
    buf,           \* io.Copy: the chunk read and not yet written
    rd,            \* every byte read from resp.Body so far
    eof,           \* resp.Body has returned io.EOF
    closedAt       \* Len(rd) when the caller went away; -1 while it is there

vars == <<env, svc, pc, r, w, logs, language, body, reqBody, systemPrompt,
          modifiedBody, req, sent, resp, src, buf, rd, eof, closedAt>>

-----------------------------------------------------------------------------
(* Bounds of the model.                                                    *)

\* the longest short X-Language value enumerated character by character
MaxShortLang == 2
\* the longest `messages` array of an inbound body
MaxMsgs == 2
\* the longest upstream response body, in bytes
MaxBody == 3
\* the most bytes one Read of resp.Body returns (io.Copy's buffer)
MaxChunk == 2
\* the most literal pieces and placeholders of a SYSTEM_PROMPT_TEMPLATE
MaxPieces == 3

-----------------------------------------------------------------------------
(* Strings.                                                                *)

RECURSIVE Rep(_, _)
Rep(c, n) == IF n <= 0 THEN << >> ELSE <<c>> \o Rep(c, n - 1)

SeqsUpTo(S, n) == UNION {[1..k -> S] : k \in 0..n}

IsPrefix(s, t) == Len(s) <= Len(t) /\ SubSeq(t, 1, Len(s)) = s

\* strings.ReplaceAll: the leftmost non-overlapping occurrences of old
RECURSIVE ReplaceN(_, _, _, _)
ReplaceN(s, old, new, n) ==
    IF n = 0 \/ Len(s) < Len(old) THEN s
    ELSE IF SubSeq(s, 1, Len(old)) = old
         THEN new \o ReplaceN(SubSeq(s, Len(old) + 1, Len(s)), old, new, n - 1)
         ELSE <<Head(s)>> \o ReplaceN(Tail(s), old, new, n)

ReplaceFirst(s, old, new) == ReplaceN(s, old, new, 1)

ReplaceAll(s, old, new) == ReplaceN(s, old, new, -1)

\* strings.TrimRight(s, "/")
RECURSIVE TrimRightSlash(_)
TrimRightSlash(s) ==
    IF s # << >> /\ s[Len(s)] = "/" THEN TrimRightSlash(SubSeq(s, 1, Len(s) - 1))
    ELSE s

-----------------------------------------------------------------------------
(* http.Header: a map from the names present to their (first) values.      *)

NoHeaders == << >>

Get(h, k) == IF k \in DOMAIN h THEN h[k] ELSE << >>

Set(h, k, v) == [x \in (DOMAIN h) \cup {k} |-> IF x = k THEN v ELSE h[x]]

Del(h, k) == [x \in (DOMAIN h) \ {k} |-> h[x]]

-----------------------------------------------------------------------------
(* JSON.  A document is the text of a body, given by its syntax tree (or   *)
(* Malformed when it has none); object members are keyed, so a document    *)
(* with a repeated key is outside the model.  A number literal is a        *)
(* non-negative integer below 2^54 written as two decimal limbs,           *)
(* hi * 10^8 + lo, so that the width of float64 is kept.                   *)

Limb == 10 ^ 8

Malformed == [t |-> "malformed"]
JNull == [t |-> "null"]
JBool(b) == [t |-> "bool", b |-> b]
JNum(hi, lo) == [t |-> "num", hi |-> hi, lo |-> lo]
JStr(s) == [t |-> "str", s |-> s]
JArr(a) == [t |-> "arr", a |-> a]
JObj(o) == [t |-> "obj", o |-> o]

\* what encoding/json stores in an interface{}
GoNil == [g |-> "nil"]
GoBool(b) == [g |-> "bool", b |-> b]
GoFloat64(f) == [g |-> "float64", hi |-> f.hi, lo |-> f.lo]
GoString(s) == [g |-> "string", s |-> s]
GoSlice(a) == [g |-> "slice", a |-> a]
GoMap(m) == [g |-> "map", m |-> m]
\* a map[string]interface{} that was never made
NilMap == [g |-> "nilmap"]

\* 2^53 = 9007199254740992: up to it every integer is a float64
TwoPow53 == [hi |-> 90071992, lo |-> 54740992]

LimbLeq(a, b) == a.hi < b.hi \/ (a.hi = b.hi /\ a.lo <= b.lo)

\* strconv.ParseFloat(s, 64) of an integer literal below 2^54: beyond 2^53
\* only even integers exist, and an odd one goes to the neighbour whose
\* mantissa is even (10^8 / 2 is even, so the parity of (n-1)/2 is that of
\* (lo-1)/2)
ParseFloat(n) ==
    IF LimbLeq(n, TwoPow53) \/ n.lo % 2 = 0 THEN [hi |-> n.hi, lo |-> n.lo]
    ELSE IF ((n.lo - 1) \div 2) % 2 = 0 THEN [hi |-> n.hi, lo |-> n.lo - 1]
    ELSE IF n.lo + 1 = Limb THEN [hi |-> n.hi + 1, lo |-> 0]
    ELSE [hi |-> n.hi, lo |-> n.lo + 1]

\* json.Unmarshal into an interface{}: the value of a well-formed document
RECURSIVE Decode(_)
Decode(v) ==
    CASE v.t = "null" -> GoNil
      [] v.t = "bool" -> GoBool(v.b)
      [] v.t = "num"  -> GoFloat64(ParseFloat(v))
      [] v.t = "str"  -> GoString(v.s)
      [] v.t = "arr"  -> GoSlice([i \in 1..Len(v.a) |-> Decode(v.a[i])])
      [] v.t = "obj"  -> GoMap([k \in DOMAIN v.o |-> Decode(v.o[k])])

\* json.Unmarshal(body, &reqBody) with reqBody a nil map[string]interface{}:
\* a syntax error or a value of another kind is an error; null is none, and
\* leaves the map nil
Unmarshal(doc) ==
    CASE doc.t = "malformed" -> [err |-> "syntax", v |-> NilMap]
      [] doc.t = "null"      -> [err |-> "", v |-> NilMap]
      [] doc.t = "obj"       -> [err |-> "", v |-> Decode(doc)]
      [] OTHER               -> [err |-> "type", v |-> NilMap]

\* json.Marshal of a value Unmarshal produced: a float64 holding an integer
\* below 1e21 is written with all its digits
RECURSIVE Marshal(_)
Marshal(x) ==
    CASE x.g = "nil"     -> JNull
      [] x.g = "nilmap"  -> JNull
      [] x.g = "bool"    -> JBool(x.b)
      [] x.g = "float64" -> JNum(x.hi, x.lo)
      [] x.g = "string"  -> JStr(x.s)
      [] x.g = "slice"   -> JArr([i \in 1..Len(x.a) |-> Marshal(x.a[i])])
      [] x.g = "map"     -> JObj([k \in DOMAIN x.m |-> Marshal(x.m[k])])

\* m[k] of a map[string]interface{}, nil map included
MapGet(m, k) == IF m.g = "map" /\ k \in DOMAIN m.m THEN m.m[k] ELSE GoNil

\* m[k] = v; writing to a nil map panics (see chatHandler_prepend)
MapSet(m, k, v) == GoMap(Set(m.m, k, v))

\* x.([]interface{}) in its two-result form: the elements, or nil
AsSlice(x) == IF x.g = "slice" THEN x.a ELSE << >>

-----------------------------------------------------------------------------
(* The http.ResponseWriter.                                                *)

NewResponseWriter ==
    [header |-> NoHeaders, status |-> 0, sentHeader |-> NoHeaders,
     body |-> << >>, calls |-> 0, flushes |-> 0]

\* w.WriteHeader(code): the first call fixes the status and the header set
WriteHeader(ww, code) ==
    IF ww.status # 0 THEN [ww EXCEPT !.calls = @ + 1]
    ELSE [ww EXCEPT !.status = code, !.sentHeader = ww.header, !.calls = @ + 1]

\* w.Write(p) having written the first n bytes of p
WriteN(ww, p, n) ==
    LET w1 == IF ww.status = 0 THEN WriteHeader(ww, 200) ELSE ww
    IN  [w1 EXCEPT !.body = @ \o SubSeq(p, 1, n)]

\* http.Error(w, msg, code)
HttpError(ww, msg, code) ==
    LET h1 == Del(ww.header, "Content-Length")
        h2 == Set(h1, "Content-Type", <<"text/plain; charset=utf-8">>)
        h3 == Set(h2, "X-Content-Type-Options", <<"nosniff">>)
        w1 == WriteHeader([ww EXCEPT !.header = h3], code)
    IN  WriteN(w1, msg \o <<"\n">>, Len(msg) + 1)

NoReq == [t |-> "none"]
NoResp == [t |-> "none"]

-----------------------------------------------------------------------------
(* function/main.go: constants and configuration.                          *)

Placeholder == <<"{", "{", "L", "A", "N", "G", "U", "A", "G", "E", "}", "}">>

defaultSystemPrompt ==
    <<"You are a helpful assistant. Always respond in ">> \o Placeholder \o <<".">>

maxLanguageLen == 64

Letters ==
    {"a", "b", "c", "d", "e", "f", "g", "h", "i", "j", "k", "l", "m", "n", "o",
     "p", "q", "r", "s", "t", "u", "v", "w", "x", "y", "z", "A", "B", "C", "D",
     "E", "F", "G", "H", "I", "J", "K", "L", "M", "N", "O", "P", "Q", "R", "S",
     "T", "U", "V", "W", "X", "Y", "Z"}

\* [a-zA-Z \-]*$ : the rest of the text, up to its end
RECURSIVE MatchRest(_)
MatchRest(s) ==
    IF s = << >> THEN TRUE
    ELSE IF Head(s) \in Letters \/ Head(s) = " " \/ Head(s) = "-"
         THEN MatchRest(Tail(s))
         ELSE FALSE

\* languageRegex.MatchString: ^[a-zA-Z][a-zA-Z \-]*$
languageRegex(s) == s # << >> /\ Head(s) \in Letters /\ MatchRest(Tail(s))

English == <<"E", "n", "g", "l", "i", "s", "h">>

\* os.Getenv
Getenv(k) == env[k]

\* url.Parse, as http.NewRequestWithContext calls it, fails on these
InvalidURLs == {<<"http://[::1">>}

URLInvalid(u) == \E b \in InvalidURLs : IsPrefix(b, u)

-----------------------------------------------------------------------------
(* function/main.go: chatHandler.                                          *)

fnLocals == <<language, body, reqBody, systemPrompt, modifiedBody>>
copyVars == <<src, buf, rd, eof, closedAt>>

\* the server hands a request to chatHandler
FnServe(Reqs) ==
    /\ pc = "idle"
    /\ \E q \in Reqs : r' = q
    /\ svc' = "function"
    /\ pc' = "method"
    /\ UNCHANGED <<env, w, logs, fnLocals, req, sent, resp, copyVars>>

\* a method check that lets a CORS preflight through
MethodNotAllowedButOptions(m) == m \notin {"POST", "OPTIONS"}

\* line 35
MethodNotAllowed(m) == m # "POST"

chatHandler_method ==
    /\ svc = "function" /\ pc = "method"
    /\ IF MethodNotAllowed(r.method)
       THEN /\ w' = HttpError(w, <<"Method not allowed">>, 405)
            /\ pc' = "done"
       ELSE /\ pc' = "language"
            /\ UNCHANGED w
    /\ UNCHANGED <<env, svc, r, logs, fnLocals, req, sent, resp, copyVars>>

\* lines 41-44: the header, or "English" when it is absent or empty
LanguageOf(h) ==
    IF Get(h, "X-Language") = << >> THEN English ELSE Get(h, "X-Language")

\* a length check that is off by one
LanguageRejectedOffByOne(l) == Len(l) >= maxLanguageLen \/ ~languageRegex(l)

\* line 45
LanguageRejected(l) == Len(l) > maxLanguageLen \/ ~languageRegex(l)

chatHandler_language ==
    /\ svc = "function" /\ pc = "language"
    /\ language' = LanguageOf(r.header)
    /\ IF LanguageRejected(language')
       THEN /\ w' = HttpError(w, <<"Invalid X-Language header">>, 400)
            /\ pc' = "done"
       ELSE /\ pc' = "readBody"
            /\ UNCHANGED w
    /\ UNCHANGED <<env, svc, r, logs, body, reqBody, systemPrompt, modifiedBody,
                   req, sent, resp, copyVars>>

\* io.ReadAll(r.Body): the body, or a read error
chatHandler_readBody ==
    /\ svc = "function" /\ pc = "readBody"
    /\ IF r.body.t = "ioerr"
       THEN /\ logs' = Append(logs, "Failed to read request body")
            /\ w' = HttpError(w, <<"Failed to read request body">>, 500)
            /\ pc' = "done"
            /\ UNCHANGED body
       ELSE /\ body' = r.body
            /\ pc' = "unmarshal"
            /\ UNCHANGED <<w, logs>>
    /\ UNCHANGED <<env, svc, r, language, reqBody, systemPrompt, modifiedBody,
                   req, sent, resp, copyVars>>

chatHandler_unmarshal ==
    /\ svc = "function" /\ pc = "unmarshal"
    /\ LET u == Unmarshal(body)
       IN  IF u.err # ""
           THEN /\ logs' = Append(logs, "Failed to parse request body")
                /\ w' = HttpError(w, <<"Invalid JSON body">>, 400)
                /\ pc' = "done"
                /\ UNCHANGED reqBody
           ELSE /\ reqBody' = u.v
                /\ pc' = "render"
                /\ UNCHANGED <<w, logs>>
    /\ UNCHANGED <<env, svc, r, language, body, systemPrompt, modifiedBody,
                   req, sent, resp, copyVars>>

\* a rendering that replaces the first placeholder only
RenderFirstOnly(tpl, lang) ==
    ReplaceFirst(IF tpl = << >> THEN defaultSystemPrompt ELSE tpl, Placeholder, lang)

\* lines 68-72
Render(tpl, lang) ==
    ReplaceAll(IF tpl = << >> THEN defaultSystemPrompt ELSE tpl, Placeholder, lang)

chatHandler_render ==
    /\ svc = "function" /\ pc = "render"
    /\ systemPrompt' = Render(Getenv("SYSTEM_PROMPT_TEMPLATE"), language)
    /\ pc' = "prepend"
    /\ UNCHANGED <<env, svc, r, w, logs, language, body, reqBody, modifiedBody,
                   req, sent, resp, copyVars>>

systemMessage(prompt) ==
    GoMap([role |-> GoString(<<"system">>), content |-> GoString(prompt)])

\* lines 75-80, on a map that is not nil
PrependSystemMessage(m, prompt) ==
    MapSet(m, "messages",
           GoSlice(<<systemMessage(prompt)>> \o AsSlice(MapGet(m, "messages"))))

\* line 80 assigns to an entry of reqBody: on the nil map that the body
\* `null` leaves, the assignment panics; net/http recovers, logs and drops the
\* connection without a response
chatHandler_prepend ==
    /\ svc = "function" /\ pc = "prepend"
    /\ IF reqBody = NilMap
       THEN /\ logs' = Append(logs, "http: panic serving")
            /\ pc' = "panic"
            /\ UNCHANGED reqBody
       ELSE /\ reqBody' = PrependSystemMessage(reqBody, systemPrompt)
            /\ pc' = "override"
            /\ UNCHANGED logs
    /\ UNCHANGED <<env, svc, r, w, language, body, systemPrompt, modifiedBody,
                   req, sent, resp, copyVars>>

\* an override that yields to the model the client named
OverrideIfAbsent(m, model) ==
    IF model # << >> /\ "model" \notin DOMAIN m.m
    THEN MapSet(m, "model", GoString(model)) ELSE m

\* lines 83-85
OverrideModel(m, model) ==
    IF model # << >> THEN MapSet(m, "model", GoString(model)) ELSE m

chatHandler_override ==
    /\ svc = "function" /\ pc = "override"
    /\ reqBody' = OverrideModel(reqBody, Getenv("TINFOIL_MODEL"))
    /\ pc' = "marshal"
    /\ UNCHANGED <<env, svc, r, w, logs, language, body, systemPrompt,
                   modifiedBody, req, sent, resp, copyVars>>

\* json.Marshal fails on channels, functions, cycles, NaN and infinities:
\* none of them is a value Unmarshal stores
MarshalFails(x) == FALSE

chatHandler_marshal ==
    /\ svc = "function" /\ pc = "marshal"
    /\ IF MarshalFails(reqBody)
       THEN /\ logs' = Append(logs, "Failed to marshal modified body")
            /\ w' = HttpError(w, <<"Failed to marshal request">>, 500)
            /\ pc' = "done"
            /\ UNCHANGED modifiedBody
       ELSE /\ modifiedBody' = Marshal(reqBody)
            /\ pc' = "forward"
            /\ UNCHANGED <<w, logs>>
    /\ UNCHANGED <<env, svc, r, language, body, reqBody, systemPrompt,
                   req, sent, resp, copyVars>>

\* lines 107-119: the upstream request
FnUpstreamRequest(inferenceURL, apiKey, h, b) ==
    LET h1 == Set(NoHeaders, "Content-Type", <<"application/json">>)
        h2 == Set(h1, "Authorization", <<"Bearer ">> \o apiKey)
        h3 == IF Get(h, "Accept") # << >>
              THEN Set(h2, "Accept", Get(h, "Accept")) ELSE h2
    IN  [method |-> "POST",
         url |-> TrimRightSlash(inferenceURL) \o <<"/v1/chat/completions">>,
         header |-> h3, body |-> b]

\* a forward step that does not require the API key
chatHandler_forwardNoKeyCheck ==
    /\ svc = "function" /\ pc = "forward"
    /\ LET inferenceURL == Getenv("TINFOIL_INFERENCE_URL")
           apiKey == Getenv("TINFOIL_API_KEY")
           up == FnUpstreamRequest(inferenceURL, apiKey, r.header, modifiedBody)
       IN  IF inferenceURL = << >>
           THEN /\ w' = HttpError(w, <<"TINFOIL_INFERENCE_URL not configured">>, 500)
                /\ pc' = "done"
                /\ UNCHANGED <<req, logs>>
           ELSE IF URLInvalid(up.url)
           THEN /\ logs' = Append(logs, "Failed to create upstream request")
                /\ w' = HttpError(w, <<"Failed to create upstream request">>, 500)
                /\ pc' = "done"
                /\ UNCHANGED req
           ELSE /\ req' = up
                /\ pc' = "do"
                /\ UNCHANGED <<w, logs>>
    /\ UNCHANGED <<env, svc, r, fnLocals, sent, resp, copyVars>>

\* lines 96-119
chatHandler_forward ==
    /\ svc = "function" /\ pc = "forward"
    /\ LET inferenceURL == Getenv("TINFOIL_INFERENCE_URL")
           apiKey == Getenv("TINFOIL_API_KEY")
           up == FnUpstreamRequest(inferenceURL, apiKey, r.header, modifiedBody)
       IN  IF inferenceURL = << >>
           THEN /\ w' = HttpError(w, <<"TINFOIL_INFERENCE_URL not configured">>, 500)
                /\ pc' = "done"
                /\ UNCHANGED <<req, logs>>
           ELSE IF apiKey = << >>
           THEN /\ w' = HttpError(w, <<"TINFOIL_API_KEY not configured">>, 500)
                /\ pc' = "done"
                /\ UNCHANGED <<req, logs>>
           ELSE IF URLInvalid(up.url)
           THEN /\ logs' = Append(logs, "Failed to create upstream request")
                /\ w' = HttpError(w, <<"Failed to create upstream request">>, 500)
                /\ pc' = "done"
                /\ UNCHANGED req
           ELSE /\ req' = up
                /\ pc' = "do"
                /\ UNCHANGED <<w, logs>>
    /\ UNCHANGED <<env, svc, r, fnLocals, sent, resp, copyVars>>

\* http.DefaultClient.Do(upstreamReq): a transport error, or a response
chatHandler_do(Outcomes) ==
    /\ svc = "function" /\ pc = "do"
    /\ sent' = Append(sent, req)
    /\ \E o \in Outcomes :
          IF o.t = "err"
          THEN /\ logs' = Append(logs, "Upstream request failed")
               /\ w' = HttpError(w, <<"Upstream request failed">>, 502)
               /\ pc' = "done"
               /\ UNCHANGED <<resp, src>>
          ELSE /\ resp' = o
               /\ src' = o.body
               /\ pc' = "writeHeader"
               /\ UNCHANGED <<w, logs>>
    /\ UNCHANGED <<env, svc, r, fnLocals, req, buf, rd, eof, closedAt>>

\* lines 130-136 and 101-113 of the proxy: Content-Type and
\* Transfer-Encoding mirrored, Content-Length dropped when chunked
MirrorHeaders(h, up) ==
    LET h1 == IF Get(up, "Content-Type") # << >>
              THEN Set(h, "Content-Type", Get(up, "Content-Type")) ELSE h
    IN  IF Get(up, "Transfer-Encoding") # << >>
        THEN Del(Set(h1, "Transfer-Encoding", Get(up, "Transfer-Encoding")),
                 "Content-Length")
        ELSE h1

\* a step that answers an upstream 5xx with its own 502
chatHandler_writeHeaderMasking5xx ==
    /\ svc = "function" /\ pc = "writeHeader"
    /\ w' = WriteHeader([w EXCEPT !.header = MirrorHeaders(@, resp.header)],
                        IF resp.status >= 500 THEN 502 ELSE resp.status)
    /\ pc' = "copyRead"
    /\ UNCHANGED <<env, svc, r, logs, fnLocals, req, sent, resp, copyVars>>

\* lines 130-138
chatHandler_writeHeader ==
    /\ svc = "function" /\ pc = "writeHeader"
    /\ w' = WriteHeader([w EXCEPT !.header = MirrorHeaders(@, resp.header)],
                        resp.status)
    /\ pc' = "copyRead"
    /\ UNCHANGED <<env, svc, r, logs, fnLocals, req, sent, resp, copyVars>>

\* line 151
chatHandler_finish ==
    /\ svc = "function" /\ pc = "finish"
    /\ logs' = Append(logs, "Chat completion forwarded")
    /\ pc' = "done"
    /\ UNCHANGED <<env, svc, r, w, fnLocals, req, sent, resp, copyVars>>

-----------------------------------------------------------------------------
(* io.Copy(fw, resp.Body) through the flushWriter, the same in both        *)
(* services: read a chunk, write it and flush, read the next.              *)

Min(a, b) == IF a < b THEN a ELSE b

copyFailed == IF svc = "function" THEN "Stream copy failed" ELSE "stream copy failed"

\* a reader that runs ahead of the writer: it reads the next chunk while the
\* last one is still waiting to be written
io_Copy_readAhead ==
    /\ pc \in {"copyRead", "copyWrite"}
    /\ IF src = << >>
       THEN /\ pc = "copyRead"
            /\ logs' = IF resp.broken THEN Append(logs, copyFailed) ELSE logs
            /\ eof' = ~resp.broken
            /\ pc' = "finish"
            /\ UNCHANGED <<src, buf, rd>>
       ELSE \E n \in 1..Min(MaxChunk, Len(src)) :
               /\ buf' = buf \o SubSeq(src, 1, n)
               /\ src' = SubSeq(src, n + 1, Len(src))
               /\ rd' = rd \o SubSeq(src, 1, n)
               /\ pc' = "copyWrite"
               /\ UNCHANGED <<logs, eof>>
    /\ UNCHANGED <<env, svc, r, w, fnLocals, req, sent, resp, closedAt>>

\* resp.Body.Read: up to MaxChunk bytes, or the end of the body, which is
\* io.EOF or, when upstream broke off, an error that io.Copy returns
io_Copy_read ==
    /\ pc = "copyRead"
    /\ IF src = << >>
       THEN /\ logs' = IF resp.broken THEN Append(logs, copyFailed) ELSE logs
            /\ eof' = ~resp.broken
            /\ pc' = "finish"
            /\ UNCHANGED <<src, buf, rd>>
       ELSE \E n \in 1..Min(MaxChunk, Len(src)) :
               /\ buf' = SubSeq(src, 1, n)
               /\ src' = SubSeq(src, n + 1, Len(src))
               /\ rd' = rd \o SubSeq(src, 1, n)
               /\ pc' = "copyWrite"
               /\ UNCHANGED <<logs, eof>>
    /\ UNCHANGED <<env, svc, r, w, fnLocals, req, sent, resp, closedAt>>

\* a writer that sends the chunk twice
WriteTwice(ww, p, n) == WriteN(WriteN(ww, p, n), p, n)

\* flushWriter.Write: n, err := fw.w.Write(p); fw.f.Flush()
flushWriter_Write(ww, p, n) == [WriteN(ww, p, n) EXCEPT !.flushes = @ + 1]

\* a copy loop that answers a failed write with an error response
io_Copy_writeThenError ==
    /\ pc = "copyWrite"
    /\ \E n \in 0..Len(buf) :
          IF n < Len(buf)
          THEN /\ w' = HttpError(flushWriter_Write(w, buf, n), <<copyFailed>>, 502)
               /\ logs' = Append(logs, copyFailed)
               /\ pc' = "finish"
          ELSE /\ w' = flushWriter_Write(w, buf, n)
               /\ pc' = "copyRead"
               /\ UNCHANGED logs
    /\ buf' = << >>
    /\ UNCHANGED <<env, svc, r, fnLocals, req, sent, resp, src, rd, eof, closedAt>>

\* a copy loop that goes on reading after a write has failed
io_Copy_writeIgnoringError ==
    /\ pc = "copyWrite"
    /\ \E n \in 0..Len(buf) :
          /\ closedAt >= 0 => n < Len(buf)
          /\ w' = flushWriter_Write(w, buf, n)
          /\ pc' = "copyRead"
          /\ UNCHANGED logs
    /\ buf' = << >>
    /\ UNCHANGED <<env, svc, r, fnLocals, req, sent, resp, src, rd, eof, closedAt>>

\* the write of the chunk in flight: all of it, or the first n bytes and an
\* error, which ends io.Copy; to a caller that has gone away the write fails
io_Copy_write ==
    /\ pc = "copyWrite"
    /\ \E n \in 0..Len(buf) :
          /\ closedAt >= 0 => n < Len(buf)
          /\ w' = flushWriter_Write(w, buf, n)
          /\ IF n < Len(buf)
             THEN /\ logs' = Append(logs, copyFailed)
                  /\ pc' = "finish"
             ELSE /\ pc' = "copyRead"
                  /\ UNCHANGED logs
    /\ buf' = << >>
    /\ UNCHANGED <<env, svc, r, fnLocals, req, sent, resp, src, rd, eof, closedAt>>

\* the caller closes the connection while the response is being copied: the
\* server cancels r.Context(), which the upstream request was made with
\* (function/main.go:108, proxy/main.go:65)
CallerDisconnects ==
    /\ svc \in {"function", "proxy"}
    /\ pc \in {"copyRead", "copyWrite"}
    /\ closedAt = -1
    /\ closedAt' = Len(rd)
    /\ UNCHANGED <<env, svc, pc, r, w, logs, fnLocals, req, sent, resp,
                   src, buf, rd, eof>>

\* resp.Body.Read under the cancelled context: instead of a chunk that was
\* in flight it returns the context's error, which ends io.Copy
io_Copy_readCanceled ==
    /\ pc = "copyRead"
    /\ closedAt >= 0
    /\ logs' = Append(logs, copyFailed)
    /\ pc' = "finish"
    /\ UNCHANGED <<env, svc, r, w, fnLocals, req, sent, resp, copyVars>>

-----------------------------------------------------------------------------
(* proxy/main.go: proxyHandler.                                            *)

enclaveURLHeader == "X-Tinfoil-Enclave-Url"
usageMetricsRequestHeader == "X-Tinfoil-Request-Usage-Metrics"
usageMetricsResponseHeader == "X-Tinfoil-Usage-Metrics"
allowHeaders ==
    <<"Accept", ", ", "Authorization", ", ", "Content-Type", ", ",
      "Ehbp-Encapsulated-Key", ", ", "X-Tinfoil-Enclave-Url", ", ",
      "X-Language", ", ", "X-User-Tier">>
exposeHeaders == <<"Ehbp-Response-Nonce">>
ehbpRequestHeaders == <<"Ehbp-Encapsulated-Key">>
ehbpResponseHeaders == <<"Ehbp-Response-Nonce">>

FreeModels == <<"gpt-oss-120b">>
PaidModels == <<"gpt-oss-120b", ",", "kimi-k2-5">>

\* a copy that takes every header of the source, listed or not
copyAllHeaders(dst, from, keys) ==
    [k \in (DOMAIN dst) \cup (DOMAIN from) |->
        IF k \in DOMAIN from THEN from[k] ELSE dst[k]]

\* copyHeaders(dst, src, keys...)
RECURSIVE copyHeaders(_, _, _)
copyHeaders(dst, from, keys) ==
    IF keys = << >> THEN dst
    ELSE copyHeaders(IF Get(from, Head(keys)) # << >>
                     THEN Set(dst, Head(keys), Get(from, Head(keys))) ELSE dst,
                     from, Tail(keys))

\* setLanguageHeader(dst, src)
setLanguageHeader(dst, from) ==
    IF Get(from, "X-Language") # << >>
    THEN Set(dst, "X-Language", Get(from, "X-Language")) ELSE dst

\* a policy that lets a client-supplied X-Allowed-Models through
setAllowedModelsHeaderTrusting(dst, from) ==
    IF Get(from, "X-Allowed-Models") # << >>
    THEN Set(dst, "X-Allowed-Models", Get(from, "X-Allowed-Models"))
    ELSE IF Get(from, "X-User-Tier") = <<"paid">>
    THEN Set(dst, "X-Allowed-Models", PaidModels)
    ELSE Set(dst, "X-Allowed-Models", FreeModels)

\* setAllowedModelsHeader(dst, src)
setAllowedModelsHeader(dst, from) ==
    IF Get(from, "X-User-Tier") = <<"paid">>
    THEN Set(dst, "X-Allowed-Models", PaidModels)
    ELSE Set(dst, "X-Allowed-Models", FreeModels)

PxServe(Reqs) ==
    /\ pc = "idle"
    /\ \E q \in Reqs : r' = q
    /\ svc' = "proxy"
    /\ pc' = "cors"
    /\ UNCHANGED <<env, w, logs, fnLocals, req, sent, resp, copyVars>>

\* a CORS step that sets the headers on the preflight answer only
proxyHandler_corsPreflightOnly ==
    /\ svc = "proxy" /\ pc = "cors"
    /\ logs' = Append(logs, "Received request")
    /\ LET h1 == Set(w.header, "Access-Control-Allow-Origin", <<"*">>)
           h2 == Set(h1, "Access-Control-Allow-Methods", <<"POST, OPTIONS">>)
           h3 == Set(h2, "Access-Control-Allow-Headers", allowHeaders)
           h4 == Set(h3, "Access-Control-Expose-Headers", exposeHeaders)
           w1 == [w EXCEPT !.header = h4]
       IN  IF r.method = "OPTIONS"
           THEN /\ w' = WriteHeader(w1, 204)
                /\ pc' = "done"
           ELSE /\ w' = w
                /\ pc' = "enclave"
    /\ UNCHANGED <<env, svc, r, fnLocals, req, sent, resp, copyVars>>

\* lines 44-54
proxyHandler_cors ==
    /\ svc = "proxy" /\ pc = "cors"
    /\ logs' = Append(logs, "Received request")
    /\ LET h1 == Set(w.header, "Access-Control-Allow-Origin", <<"*">>)
           h2 == Set(h1, "Access-Control-Allow-Methods", <<"POST, OPTIONS">>)
           h3 == Set(h2, "Access-Control-Allow-Headers", allowHeaders)
           h4 == Set(h3, "Access-Control-Expose-Headers", exposeHeaders)
           w1 == [w EXCEPT !.header = h4]
       IN  IF r.method = "OPTIONS"
           THEN /\ w' = WriteHeader(w1, 204)
                /\ pc' = "done"
           ELSE /\ w' = w1
                /\ pc' = "enclave"
    /\ UNCHANGED <<env, svc, r, fnLocals, req, sent, resp, copyVars>>

\* a check that lets the request through without a destination
EnclaveMissingNever(h) == FALSE

\* line 58
EnclaveMissing(h) == Get(h, enclaveURLHeader) = << >>

\* lines 57-62
proxyHandler_enclave ==
    /\ svc = "proxy" /\ pc = "enclave"
    /\ IF EnclaveMissing(r.header)
       THEN /\ logs' = Append(logs, "Error: X-Tinfoil-Enclave-Url header not provided")
            /\ w' = HttpError(w, <<"X-Tinfoil-Enclave-Url header required">>, 400)
            /\ pc' = "done"
       ELSE /\ pc' = "newRequest"
            /\ UNCHANGED <<w, logs>>
    /\ UNCHANGED <<env, svc, r, fnLocals, req, sent, resp, copyVars>>

\* an upstream request that looks into the body: no Content-Type for an
\* empty one
PxUpstreamRequestPeeking(q, apiKey) ==
    LET h1 == IF q.body # << >>
              THEN Set(NoHeaders, "Content-Type", <<"application/json">>)
              ELSE NoHeaders
        h2 == IF Get(q.header, "Accept") # << >>
              THEN Set(h1, "Accept", Get(q.header, "Accept")) ELSE h1
        h3 == IF apiKey # << >>
              THEN Set(h2, "Authorization", <<"Bearer ">> \o apiKey) ELSE h2
        h4 == Set(h3, usageMetricsRequestHeader, <<"true">>)
        h5 == copyHeaders(h4, q.header, ehbpRequestHeaders)
        h6 == setLanguageHeader(h5, q.header)
        h7 == setAllowedModelsHeader(h6, q.header)
    IN  [method |-> "POST",
         url |-> Get(q.header, enclaveURLHeader) \o q.path,
         header |-> h7, body |-> q.body]

\* an upstream request that keeps the query string of the inbound URL
PxUpstreamRequestWithQuery(q, apiKey) ==
    LET h1 == Set(NoHeaders, "Content-Type", <<"application/json">>)
        h2 == IF Get(q.header, "Accept") # << >>
              THEN Set(h1, "Accept", Get(q.header, "Accept")) ELSE h1
        h3 == IF apiKey # << >>
              THEN Set(h2, "Authorization", <<"Bearer ">> \o apiKey) ELSE h2
        h4 == Set(h3, usageMetricsRequestHeader, <<"true">>)
        h5 == copyHeaders(h4, q.header, ehbpRequestHeaders)
        h6 == setLanguageHeader(h5, q.header)
        h7 == setAllowedModelsHeader(h6, q.header)
    IN  [method |-> "POST",
         url |-> Get(q.header, enclaveURLHeader) \o q.path
                 \o (IF q.query # << >> THEN <<"?">> \o q.query ELSE << >>),
         header |-> h7, body |-> q.body]

\* lines 63-89: the upstream request
PxUpstreamRequest(q, apiKey) ==
    LET h1 == Set(NoHeaders, "Content-Type", <<"application/json">>)
        h2 == IF Get(q.header, "Accept") # << >>
              THEN Set(h1, "Accept", Get(q.header, "Accept")) ELSE h1
        h3 == IF apiKey # << >>
              THEN Set(h2, "Authorization", <<"Bearer ">> \o apiKey) ELSE h2
        h4 == Set(h3, usageMetricsRequestHeader, <<"true">>)
        h5 == copyHeaders(h4, q.header, ehbpRequestHeaders)
        h6 == setLanguageHeader(h5, q.header)
        h7 == setAllowedModelsHeader(h6, q.header)
    IN  [method |-> "POST",
         url |-> Get(q.header, enclaveURLHeader) \o q.path,
         header |-> h7, body |-> q.body]

\* lines 63-89
proxyHandler_newRequest ==
    /\ svc = "proxy" /\ pc = "newRequest"
    /\ LET up == PxUpstreamRequest(r, Getenv("TINFOIL_API_KEY"))
       IN  IF URLInvalid(up.url)
           THEN /\ w' = HttpError(w, <<"parse error">>, 500)
                /\ pc' = "done"
                /\ UNCHANGED <<req, logs>>
           ELSE /\ req' = up
                /\ logs' = Append(logs, "User tier")
                /\ pc' = "do"
                /\ UNCHANGED w
    /\ UNCHANGED <<env, svc, r, fnLocals, sent, resp, copyVars>>

\* a Do step that answers a transport error with a fixed text
proxyHandler_doHidingError(Outcomes) ==
    /\ svc = "proxy" /\ pc = "do"
    /\ sent' = Append(sent, req)
    /\ \E o \in Outcomes :
          IF o.t = "err"
          THEN /\ w' = HttpError(w, <<"Upstream request failed">>, 502)
               /\ pc' = "done"
               /\ UNCHANGED <<resp, src>>
          ELSE /\ resp' = o
               /\ src' = o.body
               /\ pc' = "writeHeader"
               /\ UNCHANGED w
    /\ UNCHANGED <<env, svc, r, logs, fnLocals, req, buf, rd, eof, closedAt>>

\* lines 91-96
proxyHandler_do(Outcomes) ==
    /\ svc = "proxy" /\ pc = "do"
    /\ sent' = Append(sent, req)
    /\ \E o \in Outcomes :
          IF o.t = "err"
          THEN /\ w' = HttpError(w, o.text, 502)
               /\ pc' = "done"
               /\ UNCHANGED <<resp, src>>
          ELSE /\ resp' = o
               /\ src' = o.body
               /\ pc' = "writeHeader"
               /\ UNCHANGED w
    /\ UNCHANGED <<env, svc, r, logs, fnLocals, req, buf, rd, eof, closedAt>>

\* a step that copies the encryption headers after the status has gone out
proxyHandler_writeHeaderThenNonce ==
    /\ svc = "proxy" /\ pc = "writeHeader"
    /\ LET w1 == WriteHeader([w EXCEPT !.header = MirrorHeaders(@, resp.header)],
                             resp.status)
       IN  w' = [w1 EXCEPT !.header = copyHeaders(@, resp.header, ehbpResponseHeaders)]
    /\ logs' = IF Get(resp.header, usageMetricsResponseHeader) # << >>
               THEN Append(logs, "Usage metrics (header)") ELSE logs
    /\ pc' = "copyRead"
    /\ UNCHANGED <<env, svc, r, fnLocals, req, sent, resp, copyVars>>

\* lines 99-115
proxyHandler_writeHeader ==
    /\ svc = "proxy" /\ pc = "writeHeader"
    /\ LET h1 == copyHeaders(w.header, resp.header, ehbpResponseHeaders)
       IN  w' = WriteHeader([w EXCEPT !.header = MirrorHeaders(h1, resp.header)],
                            resp.status)
    /\ logs' = IF Get(resp.header, usageMetricsResponseHeader) # << >>
               THEN Append(logs, "Usage metrics (header)") ELSE logs
    /\ pc' = "copyRead"
    /\ UNCHANGED <<env, svc, r, fnLocals, req, sent, resp, copyVars>>

\* lines 129-131: resp.Trailer is filled once the body has been read to EOF
proxyHandler_trailer ==
    /\ svc = "proxy" /\ pc = "finish"
    /\ logs' = IF eof /\ Get(resp.trailer, usageMetricsResponseHeader) # << >>
               THEN Append(logs, "Usage metrics (trailer)") ELSE logs
    /\ pc' = "done"
    /\ UNCHANGED <<env, svc, r, w, fnLocals, req, sent, resp, copyVars>>

-----------------------------------------------------------------------------
(* The requests, environments and upstream outcomes the model draws from.  *)

\* a header or a member that is not there
Absent == <<"(absent)">>
AbsentMember == [t |-> "absent"]

SetOpt(h, k, v) == IF v = Absent THEN h ELSE Set(h, k, v)

ChatPath == <<"/v1/chat/completions">>

French == <<"F", "r", "e", "n", "c", "h">>

Env(tpl, model, url, key) ==
    [SYSTEM_PROMPT_TEMPLATE |-> tpl, TINFOIL_MODEL |-> model,
     TINFOIL_INFERENCE_URL |-> url, TINFOIL_API_KEY |-> key]

InferenceURL == <<"https://inference.example">>
ApiKey == <<"sk-key">>
CustomTemplate == <<"Reply in ">> \o Placeholder \o <<", only in ">> \o Placeholder

\* the configured environments, and the misconfigured ones
EnvsFn ==
    {Env(t, m, InferenceURL, ApiKey) :
        t \in {<< >>, CustomTemplate}, m \in {<< >>, <<"kimi-k2-5">>}}
    \cup {Env(<< >>, << >>, c[1], c[2]) :
            c \in {<<(<< >>), ApiKey>>, <<InferenceURL, (<< >>)>>,
                   <<(<< >>), (<< >>)>>, <<InferenceURL \o <<"/">>, ApiKey>>,
                   <<(<<"http://[::1">>), ApiKey>>}}

Msg(role, content) == JObj([role |-> JStr(<<role>>), content |-> JStr(<<content>>)])

MsgPool == {Msg("user", "Hi"), Msg("assistant", "Yo")}

\* `messages`: absent, an array, or a value of another shape
MessagesInputs ==
    {JArr(a) : a \in SeqsUpTo(MsgPool, MaxMsgs)}
    \cup {AbsentMember, JStr(<<"none">>), JNull, Msg("user", "Hi")}

ModelInputs == {AbsentMember, JStr(<<"gpt-oss-120b">>), JStr(<<"kimi-k2-5">>)}

\* `seed`: absent, 7, or 9007199254740993 = 2^53 + 1
SeedInputs == {AbsentMember, JNum(0, 7), JNum(90071992, 54740993)}

ObjectDoc(ms, md, sd) ==
    LET f == [k \in {"messages", "model", "seed"} |->
                 IF k = "messages" THEN ms ELSE IF k = "model" THEN md ELSE sd]
    IN  JObj([k \in {x \in DOMAIN f : f[x] # AbsentMember} |-> f[k]])

ObjectDocs ==
    {ObjectDoc(ms, md, sd) : ms \in MessagesInputs, md \in ModelInputs, sd \in SeedInputs}

\* bodies that are no JSON object, and a body that cannot be read
OtherDocs ==
    {Malformed, JNull, JBool(TRUE), JNum(0, 7), JStr(<<"hi">>), JArr(<< >>),
     JArr(<<Msg("user", "Hi")>>)}

IoErr == [t |-> "ioerr"]

FnRequest(m, lang, accept, allowed, doc) ==
    [method |-> m, path |-> ChatPath, query |-> << >>,
     header |-> SetOpt(SetOpt(SetOpt(NoHeaders, "X-Language", lang),
                              "Accept", accept), "X-Allowed-Models", allowed),
     body |-> doc]

FnRequests ==
    {FnRequest("POST", l, Absent, a, d) :
        l \in {Absent, French, <<"f", "r", "1">>},
        a \in {FreeModels, PaidModels},
        d \in ObjectDocs \cup OtherDocs \cup {IoErr}}
    \cup {FnRequest("POST", French, <<"text/event-stream">>, Absent, d) :
            d \in {ObjectDoc(JArr(<< >>), AbsentMember, AbsentMember)}}
    \cup {FnRequest(m, l, Absent, FreeModels, d) :
            m \in {"GET", "OPTIONS", "PUT"},
            l \in {French, <<"f", "r", "1">>},
            d \in {JNull, IoErr, ObjectDoc(JArr(<< >>), AbsentMember, AbsentMember)}}

TransportError == [t |-> "err", text |-> <<"dial tcp: connection refused">>]

TransportTimeout == [t |-> "err", text |-> <<"context deadline exceeded">>]

TransportErrors == {TransportError, TransportTimeout}

Response(status, hdr, b, broken, trailer) ==
    [t |-> "resp", status |-> status, header |-> hdr, body |-> b,
     broken |-> broken, trailer |-> trailer]

EventStream ==
    Set(Set(NoHeaders, "Content-Type", <<"text/event-stream">>),
        "Transfer-Encoding", <<"chunked">>)

OutcomesFew ==
    {TransportError,
     Response(200, EventStream, <<"a", "b">>, FALSE, NoHeaders),
     Response(500, NoHeaders, << >>, FALSE, NoHeaders)}

-----------------------------------------------------------------------------
(* Specifications.                                                         *)

NoBody == [t |-> "none"]

InitWith(Envs) ==
    /\ env \in Envs
    /\ svc = "none"
    /\ pc = "idle"
    /\ r = NoReq
    /\ w = NewResponseWriter
    /\ logs = << >>
    /\ language = << >>
    /\ body = NoBody
    /\ reqBody = NilMap
    /\ systemPrompt = << >>
    /\ modifiedBody = NoBody
    /\ req = NoReq
    /\ sent = << >>
    /\ resp = NoResp
    /\ src = << >>
    /\ buf = << >>
    /\ rd = << >>
    /\ eof = FALSE
    /\ closedAt = -1

\* the steps of chatHandler after the request has arrived and before Do
FnSteps ==
    \/ chatHandler_method
    \/ chatHandler_language
    \/ chatHandler_readBody
    \/ chatHandler_unmarshal
    \/ chatHandler_render
    \/ chatHandler_prepend
    \/ chatHandler_override
    \/ chatHandler_marshal
    \/ chatHandler_forward

FnTail ==
    \/ chatHandler_writeHeader
    \/ io_Copy_read
    \/ io_Copy_write
    \/ chatHandler_finish

\* the Body Processor over the bodies and the configurations
Init == InitWith(EnvsFn)

Next ==
    \/ FnServe(FnRequests)
    \/ FnSteps
    \/ chatHandler_do(OutcomesFew)
    \/ FnTail

Spec == Init /\ [][Next]_vars

-----------------------------------------------------------------------------
(* The Body Processor over the X-Language values.                          *)

LangAlphabet == {"a", "Z", " ", "-", "1"}

\* every short value, the values around maxLanguageLen, and no header
LangInputs ==
    SeqsUpTo(LangAlphabet, MaxShortLang)
    \cup {Rep("a", n) : n \in (maxLanguageLen - 1)..(maxLanguageLen + 1)}
    \cup {Rep("a", n) \o <<c>> :
            n \in (maxLanguageLen - 1)..maxLanguageLen, c \in LangAlphabet}
    \cup {Absent}

PlainDoc == ObjectDoc(JArr(<<Msg("user", "Hi")>>), JStr(<<"gpt-oss-120b">>), AbsentMember)

LangRequests ==
    {FnRequest("POST", l, Absent, FreeModels, d) :
        l \in LangInputs, d \in {PlainDoc, Malformed}}
    \cup {FnRequest("GET", French, Absent, FreeModels, PlainDoc)}

EnvsOne == {Env(<< >>, << >>, InferenceURL, ApiKey)}

InitLanguage == InitWith(EnvsOne)

NextLanguage ==
    \/ FnServe(LangRequests)
    \/ FnSteps
    \/ chatHandler_do(OutcomesFew)
    \/ FnTail

SpecLanguage == InitLanguage /\ [][NextLanguage]_vars

-----------------------------------------------------------------------------
(* The Body Processor over the templates.  A template is given by its      *)
(* pieces: the placeholder ("PH") and literal characters, none of which    *)
(* is a character of the placeholder's name.                               *)

PieceAlphabet == {"PH", "x", "{", "}"}

TemplatePieces == SeqsUpTo(PieceAlphabet, MaxPieces)

RECURSIVE Flatten(_)
Flatten(p) ==
    IF p = << >> THEN << >>
    ELSE (IF Head(p) = "PH" THEN Placeholder ELSE <<Head(p)>>) \o Flatten(Tail(p))

EnvsTemplate == {Env(Flatten(p), << >>, InferenceURL, ApiKey) : p \in TemplatePieces}

TemplateRequests ==
    {FnRequest("POST", l, Absent, FreeModels, PlainDoc) :
        l \in {Absent, << >>, French, <<"a", "-", "b">>}}
    \cup {FnRequest("GET", French, Absent, FreeModels, PlainDoc)}

InitTemplate == InitWith(EnvsTemplate)

NextTemplate ==
    \/ FnServe(TemplateRequests)
    \/ FnSteps
    \/ chatHandler_do(OutcomesFew)
    \/ FnTail

SpecTemplate == InitTemplate /\ [][NextTemplate]_vars

-----------------------------------------------------------------------------
(* The Edge Relay over the inbound headers.                                *)

EnclaveURL == <<"https://enclave.example">>

PxRequest(m, enclave, tier, lang, allowed, rest, b) ==
    LET h1 == SetOpt(NoHeaders, enclaveURLHeader, enclave)
        h2 == SetOpt(h1, "X-User-Tier", tier)
        h3 == SetOpt(h2, "X-Language", lang)
        h4 == SetOpt(h3, "X-Allowed-Models", allowed)
        h5 == IF rest
              THEN Set(Set(Set(Set(h4, "Accept", <<"text/event-stream">>),
                               "Ehbp-Encapsulated-Key", <<"enc-key">>),
                           "Authorization", <<"Bearer ", "client-token">>),
                       "Cookie", <<"session=1">>)
              ELSE h4
    IN  [method |-> m, path |-> ChatPath, query |-> << >>, header |-> h5, body |-> b]

TierInputs == {Absent, << >>, <<"paid">>, <<"free">>, <<"Paid">>, <<"paid", ",", "free">>}

\* r.URL.RawQuery
WithQuery(q, query) == [q EXCEPT !.query = query]

\* a destination the operator never heard of
OtherURL == <<"https://collector.example">>

\* request bodies: opaque to the relay, whatever they hold
ProxyBodies == {<<"ciphertext">>, <<"{\"model\":\"kimi-k2-5\"}">>, << >>}

PxRequests ==
    {PxRequest(m, e, t, l, a, x, <<"ciphertext">>) :
        m \in {"POST", "OPTIONS", "GET"},
        e \in {Absent, << >>, EnclaveURL, <<"http://[::1">>},
        t \in TierInputs,
        l \in {Absent, French},
        a \in {Absent, <<"kimi-k2-5", ",", "secret-model">>, PaidModels},
        x \in BOOLEAN}
    \cup {WithQuery(PxRequest(m, e, t, French, Absent, TRUE, b), q) :
            m \in {"POST", "OPTIONS"},
            e \in {Absent, EnclaveURL, OtherURL, <<"http://[::1">>},
            t \in {Absent, <<"paid">>},
            b \in ProxyBodies,
            q \in {<< >>, <<"model=kimi-k2-5">>}}

EnvsProxy == {Env(<< >>, << >>, << >>, k) : k \in {<< >>, ApiKey}}

Nonce == Set(EventStream, "Ehbp-Response-Nonce", <<"nonce-1">>)

PxSteps ==
    \/ proxyHandler_cors
    \/ proxyHandler_enclave
    \/ proxyHandler_newRequest

PxTail ==
    \/ proxyHandler_writeHeader
    \/ io_Copy_read
    \/ io_Copy_write
    \/ proxyHandler_trailer

OutcomesProxy ==
    {TransportError,
     Response(200, Nonce, <<"a", "b">>, FALSE, NoHeaders),
     Response(500, NoHeaders, << >>, FALSE, NoHeaders)}

InitProxy == InitWith(EnvsProxy)

NextProxy ==
    \/ PxServe(PxRequests)
    \/ PxSteps
    \/ proxyHandler_do(OutcomesProxy)
    \/ PxTail

SpecProxy == InitProxy /\ [][NextProxy]_vars

-----------------------------------------------------------------------------
(* Both services over the upstream responses.                              *)

Usage == Set(NoHeaders, usageMetricsResponseHeader, <<"tokens=3">>)

\* a response that is not streamed and carries a nonce, or an empty one
NonceJSON(v) ==
    Set(Set(NoHeaders, "Content-Type", <<"application/json">>),
        "Ehbp-Response-Nonce", v)

ResponseHeaders ==
    {NoHeaders, EventStream, Nonce, NonceJSON(<<"nonce-2">>), NonceJSON(<< >>),
     Set(Set(NoHeaders, "Content-Type", <<"application/json">>),
         usageMetricsResponseHeader, <<"tokens=3">>)}

Bytes == {"a", "b"}

OutcomesAll ==
    TransportErrors
    \cup {Response(st, h, b, br, tr) :
            st \in {200, 429, 503}, h \in ResponseHeaders,
            b \in SeqsUpTo(Bytes, MaxBody), br \in BOOLEAN, tr \in {NoHeaders, Usage}}

StreamFnRequests == {FnRequest("POST", French, Absent, FreeModels, PlainDoc)}

StreamPxRequests ==
    {PxRequest("POST", EnclaveURL, <<"paid">>, French, Absent, TRUE, <<"ciphertext">>)}

EnvsStream == {Env(<< >>, << >>, InferenceURL, ApiKey)}

InitStream == InitWith(EnvsStream)

NextStream ==
    \/ FnServe(StreamFnRequests)
    \/ PxServe(StreamPxRequests)
    \/ FnSteps
    \/ PxSteps
    \/ chatHandler_do(OutcomesAll)
    \/ proxyHandler_do(OutcomesAll)
    \/ chatHandler_writeHeader
    \/ proxyHandler_writeHeader
    \/ io_Copy_read
    \/ io_Copy_write
    \/ chatHandler_finish
    \/ proxyHandler_trailer

SpecStream == InitStream /\ [][NextStream]_vars

-----------------------------------------------------------------------------
(* The claims.                                                             *)

\* the Body Processor has handed a request to the inference backend
FnForwarded == svc = "function" /\ sent # << >>

\* the inbound body is a JSON object whose `messages` is an array
HasMessagesArray(doc) ==
    doc.t = "obj" /\ "messages" \in DOMAIN doc.o /\ doc.o["messages"].t = "arr"

SystemMessageDoc(prompt) ==
    JObj([role |-> JStr(<<"system">>), content |-> JStr(prompt)])

\* the forwarded `messages` is the system message followed by the original
MessagesPrepended(in, out) ==
    /\ out.t = "obj" /\ "messages" \in DOMAIN out.o /\ out.o["messages"].t = "arr"
    /\ Len(out.o["messages"].a) = Len(in.o["messages"].a) + 1
    /\ out.o["messages"].a[1]
         = SystemMessageDoc(Render(env["SYSTEM_PROMPT_TEMPLATE"], language))
    /\ \A i \in 1..Len(in.o["messages"].a) :
          out.o["messages"].a[i + 1] = in.o["messages"].a[i]

\* every other top-level key is there with its value; `model` may differ
\* when an override is configured, and nothing else is added
OthersUnchanged(in, out) ==
    LET override == env["TINFOIL_MODEL"] # << >>
    IN  /\ \A k \in DOMAIN in.o \ {"messages"} :
              \/ k = "model" /\ override
              \/ k \in DOMAIN out.o /\ out.o[k] = in.o[k]
        /\ DOMAIN out.o \subseteq
              DOMAIN in.o \cup {"messages"} \cup (IF override THEN {"model"} ELSE {})

\* C1: whenever a JSON-object body whose `messages` is an array of length N
\* has been forwarded, the forwarded body has N+1 messages, the first being
\* the system message with the rendered prompt and the others the original
\* ones in order, and every other top-level key keeps its value (`model`
\* excepted under an override).
C1_PrependKeepsBody ==
    (FnForwarded /\ HasMessagesArray(r.body))
        => (MessagesPrepended(r.body, sent[1].body)
            /\ OthersUnchanged(r.body, sent[1].body))

-----------------------------------------------------------------------------
(* C2: the language claim.                                                 *)

\* the inbound X-Language value, when the header is there
LanguageHeader == r.header["X-Language"]

\* the pattern ^[A-Za-z][A-Za-z \-]*$ and the length limit of 64, as the
\* specification states them
ValidLanguage(v) ==
    /\ Len(v) >= 1 /\ Len(v) <= 64
    /\ v[1] \in Letters
    /\ \A i \in 2..Len(v) : v[i] \in Letters \cup {" ", "-"}

PastLanguage == svc = "function" /\ pc \notin {"idle", "method", "language"}

RejectedForLanguage ==
    /\ pc = "done" /\ w.status = 400 /\ sent = << >> /\ req = NoReq
    /\ w.body = <<"Invalid X-Language header", "\n">>

\* C2 as claimed: a POST whose X-Language value is longer than 64 characters
\* or does not match the pattern is answered 400 and never forwarded, and a
\* matching value of 1..64 characters is accepted.
C2_AnyInvalidValueRejected ==
    (PastLanguage /\ r.method = "POST" /\ "X-Language" \in DOMAIN r.header)
        => IF ValidLanguage(LanguageHeader) THEN ~RejectedForLanguage
           ELSE RejectedForLanguage

\* C2, amended: the same of every non-empty X-Language value (an empty value
\* is taken as no value: the default applies).
C2_InvalidLanguageRejected ==
    (PastLanguage /\ r.method = "POST" /\ "X-Language" \in DOMAIN r.header
        /\ LanguageHeader # << >>)
        => IF ValidLanguage(LanguageHeader) THEN ~RejectedForLanguage
           ELSE RejectedForLanguage

\* a value of 65 letters has been rejected
C2_Witness ==
    /\ PastLanguage /\ r.method = "POST" /\ "X-Language" \in DOMAIN r.header
    /\ Len(LanguageHeader) = 65 /\ \A i \in 1..65 : LanguageHeader[i] \in Letters
    /\ RejectedForLanguage

-----------------------------------------------------------------------------
(* C3: the allow-list.                                                     *)

\* the identifiers of a comma-separated X-Allowed-Models value
AllowedModels(v) == {JStr(<<v[i]>>) : i \in {j \in 1..Len(v) : v[j] # ","}}

\* C3: a request whose body names a model that is not in X-Allowed-Models is
\* rejected: no upstream request is made for it.
C3_AllowListEnforced ==
    (svc = "function" /\ r.body.t = "obj" /\ "model" \in DOMAIN r.body.o
        /\ "X-Allowed-Models" \in DOMAIN r.header
        /\ r.body.o["model"] \notin AllowedModels(r.header["X-Allowed-Models"]))
        => sent = << >>

-----------------------------------------------------------------------------
(* C4, C5: the Edge Relay's policy.                                        *)

\* C4: the upstream X-Allowed-Models is gpt-oss-120b,kimi-k2-5 exactly when
\* the inbound X-User-Tier is "paid" and gpt-oss-120b otherwise, whatever
\* else the caller sent.
C4_AllowedModelsFromTier ==
    (svc = "proxy" /\ req # NoReq)
        => /\ "X-Allowed-Models" \in DOMAIN req.header
           /\ req.header["X-Allowed-Models"] =
                 IF "X-User-Tier" \in DOMAIN r.header
                    /\ r.header["X-User-Tier"] = <<"paid">>
                 THEN <<"gpt-oss-120b", ",", "kimi-k2-5">>
                 ELSE <<"gpt-oss-120b">>
           /\ \A i \in 1..Len(sent) : sent[i] = req

\* a paid caller's own X-Allowed-Models was not forwarded
C4_Witness ==
    /\ svc = "proxy" /\ sent # << >>
    /\ Get(r.header, "X-User-Tier") = <<"paid">>
    /\ Get(r.header, "X-Allowed-Models") = <<"kimi-k2-5", ",", "secret-model">>
    /\ sent[1].header["X-Allowed-Models"] = <<"gpt-oss-120b", ",", "kimi-k2-5">>

NoDestination ==
    svc = "proxy"
    /\ ("X-Tinfoil-Enclave-Url" \notin DOMAIN r.header
        \/ r.header["X-Tinfoil-Enclave-Url"] = << >>)

RejectedForDestination ==
    /\ sent = << >> /\ req = NoReq
    /\ pc \in {"cors", "enclave", "done"}
    /\ pc = "done" => w.status = 400

\* C5 as claimed: every request without a non-empty X-Tinfoil-Enclave-Url is
\* answered 400, and no upstream request is made.
C5_AnyRequestWithoutDestination400 == NoDestination => RejectedForDestination

\* C5, amended: every request other than OPTIONS without a non-empty
\* X-Tinfoil-Enclave-Url is answered 400; no request without one, OPTIONS
\* included, is forwarded.
C5_MissingDestinationRejected ==
    NoDestination
        => /\ sent = << >> /\ req = NoReq
           /\ r.method # "OPTIONS" => RejectedForDestination

\* a POST without the header has been answered 400
C5_Witness ==
    /\ NoDestination /\ r.method = "POST" /\ pc = "done" /\ w.status = 400
    /\ "X-Tinfoil-Enclave-Url" \notin DOMAIN r.header

-----------------------------------------------------------------------------
(* C6, C7: streaming.                                                      *)

Streaming == resp # NoResp

\* C6: the bytes written to the caller are at every moment a prefix of the
\* bytes read from upstream, which are a prefix of what upstream sent; and
\* when the copy has ended at io.EOF the three are equal.
C6_WrittenIsPrefixOfRead ==
    Streaming
        => /\ IsPrefix(w.body, rd)
           /\ IsPrefix(rd, resp.body)
           /\ eof => (w.body = rd /\ rd = resp.body)

\* the Edge Relay has copied a body of three bytes to its end
C6_Witness ==
    svc = "proxy" /\ Streaming /\ eof /\ pc = "done" /\ Len(w.body) = 3
    /\ w.body = resp.body

\* the status and the header set that went out do not change again
StatusFrozen ==
    w.status # 0 => (w'.status = w.status /\ w'.sentHeader = w.sentHeader)

\* C7: the status and the headers are written once and before the first body
\* byte; nothing changes them afterwards, and a copy that fails leaves the
\* upstream status in place and writes no second response.
C7_StatusWrittenOnce ==
    /\ [](w.calls <= 1)
    /\ [](w.body # << >> => w.status # 0)
    /\ []((Streaming /\ pc \in {"copyRead", "copyWrite", "finish", "done"})
            => (w.calls = 1 /\ w.status = resp.status
                /\ w.sentHeader = w.header))
    /\ [][StatusFrozen]_vars

\* a copy has failed after a first chunk went out under upstream's 503
C7_Witness ==
    /\ Streaming /\ pc = "done" /\ ~eof /\ w.body # << >>
    /\ w.status = 503 /\ w.calls = 1
    /\ \E i \in DOMAIN logs : logs[i] \in {"Stream copy failed", "stream copy failed"}

-----------------------------------------------------------------------------
(* C8: the model override.                                                 *)

\* C8: under a non-empty TINFOIL_MODEL the forwarded `model` is that value
\* whatever the body held; without it the forwarded `model` is the body's,
\* and there is none when the body had none.
C8_ModelOverride ==
    (FnForwarded /\ r.body.t = "obj")
        => LET in == r.body.o
               out == sent[1].body.o
           IN  IF env["TINFOIL_MODEL"] # << >>
               THEN "model" \in DOMAIN out
                    /\ out["model"] = JStr(env["TINFOIL_MODEL"])
               ELSE IF "model" \in DOMAIN in
               THEN "model" \in DOMAIN out /\ out["model"] = in["model"]
               ELSE "model" \notin DOMAIN out

\* the override has replaced the model the client named
C8_Witness ==
    /\ FnForwarded /\ r.body.t = "obj" /\ "model" \in DOMAIN r.body.o
    /\ r.body.o["model"] = JStr(<<"gpt-oss-120b">>)
    /\ env["TINFOIL_MODEL"] = <<"kimi-k2-5">>
    /\ sent[1].body.o["model"] = JStr(<<"kimi-k2-5">>)

-----------------------------------------------------------------------------
(* C9: the rendered prompt.                                                *)

\* the template in force, by its pieces
PiecesInForce ==
    IF env["SYSTEM_PROMPT_TEMPLATE"] = << >>
    THEN {<<"You are a helpful assistant. Always respond in ", "PH", ".">>}
    ELSE {p \in TemplatePieces : Flatten(p) = env["SYSTEM_PROMPT_TEMPLATE"]}

\* the pieces with the language in the place of every placeholder
RECURSIVE Substituted(_, _)
Substituted(p, lang) ==
    IF p = << >> THEN << >>
    ELSE (IF Head(p) = "PH" THEN lang ELSE <<Head(p)>>) \o Substituted(Tail(p), lang)

Rendered == svc = "function" /\ pc \in {"prepend", "override", "marshal", "forward",
                                          "do", "writeHeader", "copyRead",
                                          "copyWrite", "finish", "done"}
            /\ reqBody # NilMap

\* C9: without an X-Language value the language is "English", and the
\* system prompt is the template in force with the language in the place of
\* every {{LANGUAGE}} and nothing else changed; that prompt is the one
\* injected.
C9_PromptRendered ==
    Rendered
        => /\ Get(r.header, "X-Language") = << >>
                => language = <<"E", "n", "g", "l", "i", "s", "h">>
           /\ Get(r.header, "X-Language") # << >>
                => language = r.header["X-Language"]
           /\ PiecesInForce # {}
           /\ \A p \in PiecesInForce : systemPrompt = Substituted(p, language)
           /\ FnForwarded
                => sent[1].body.o["messages"].a[1] = SystemMessageDoc(systemPrompt)

\* a template with two placeholders has been rendered for a request without
\* X-Language and injected
C9_Witness ==
    /\ FnForwarded /\ "X-Language" \notin DOMAIN r.header
    /\ env["SYSTEM_PROMPT_TEMPLATE"] = Placeholder \o <<"x">> \o Placeholder
    /\ systemPrompt = <<"E", "n", "g", "l", "i", "s", "h", "x",
                        "E", "n", "g", "l", "i", "s", "h">>

-----------------------------------------------------------------------------
(* C10: bodies that are no JSON object.                                    *)

\* C10: a POST with an accepted language whose body is malformed or a JSON
\* value that is no object ends with the response 400, and is not forwarded.
C10_NonObjectRejected ==
    (svc = "function" /\ r.method = "POST"
        /\ (Get(r.header, "X-Language") = << >>
            \/ ValidLanguage(Get(r.header, "X-Language")))
        /\ r.body.t \in {"malformed", "null", "bool", "num", "str", "arr"})
        => /\ sent = << >>
           /\ pc \in {"done", "panic"} => (pc = "done" /\ w.status = 400)

-----------------------------------------------------------------------------
(* C11: one terminal response for every request.                           *)

\* the handler has returned, or has been unwound by a panic
HandlerEnded == pc \in {"done", "panic"}

\* C11: when the handler of a request has ended, a status line has been
\* written for it exactly once; no handler ends without a response, whatever
\* the method, the headers and the body (every JSON value kind included).
C11_ExactlyOneResponse ==
    /\ w.calls <= 1
    /\ HandlerEnded => (w.calls = 1 /\ w.status # 0)

-----------------------------------------------------------------------------
(* C12: the methods of the Edge Relay's chat route.                        *)

\* C12: on the Edge Relay's chat route OPTIONS is answered 204 with no body
\* and no upstream request; every method other than POST and OPTIONS is
\* answered 405 with no upstream request; only a POST is ever forwarded.
C12_OnlyPostForwarded ==
    svc = "proxy"
        => /\ r.method = "OPTIONS"
                => /\ sent = << >> /\ req = NoReq
                   /\ pc = "done" => (w.status = 204 /\ w.body = << >>)
           /\ r.method \notin {"POST", "OPTIONS"}
                => /\ sent = << >> /\ req = NoReq
                   /\ pc = "done" => w.status = 405
           /\ sent # << >> => r.method = "POST"

-----------------------------------------------------------------------------
(* C13: the methods of the Body Processor's chat route.                    *)

\* C13: a request to the Body Processor that is no POST (OPTIONS included)
\* is answered 405 and nothing else is done for it: the language is not
\* read, the body is neither read nor parsed, nothing is logged, the
\* configuration plays no part, and no upstream request is built or made.
C13_NonPostIs405 ==
    (svc = "function" /\ r.method # "POST")
        => /\ sent = << >> /\ req = NoReq
           /\ language = << >> /\ body = NoBody /\ reqBody = NilMap
           /\ logs = << >>
           /\ pc \in {"method", "done"}
           /\ pc = "done"
                => (w.status = 405 /\ w.body = <<"Method not allowed", "\n">>)

\* an OPTIONS request with a bad language and an unreadable body has been
\* answered 405 by a Body Processor that has no inference URL
C13_Witness ==
    /\ svc = "function" /\ r.method = "OPTIONS" /\ pc = "done" /\ w.status = 405
    /\ r.header["X-Language"] = <<"f", "r", "1">>
    /\ r.body = IoErr
    /\ env["TINFOIL_INFERENCE_URL"] = << >>

-----------------------------------------------------------------------------
(* C14: the Body Processor without its configuration.                      *)

\* TINFOIL_INFERENCE_URL or TINFOIL_API_KEY is not set
Misconfigured == env["TINFOIL_INFERENCE_URL"] = << >> \/ env["TINFOIL_API_KEY"] = << >>

\* the 500 that names the first missing variable
NotConfigured ==
    /\ w.status = 500
    /\ w.body = IF env["TINFOIL_INFERENCE_URL"] = << >>
                THEN <<"TINFOIL_INFERENCE_URL not configured", "\n">>
                ELSE <<"TINFOIL_API_KEY not configured", "\n">>

\* C14 as claimed: while TINFOIL_INFERENCE_URL or TINFOIL_API_KEY is missing,
\* every request to the Body Processor is answered 500, whatever its headers
\* and body, and no upstream request is made.
C14_AnyRequestFails500 ==
    (svc = "function" /\ Misconfigured)
        => /\ sent = << >> /\ req = NoReq
           /\ HandlerEnded => (pc = "done" /\ w.status = 500)

\* C14, amended: while one of the two is missing no request is forwarded,
\* and every POST with an acceptable language and a JSON-object body is
\* answered with the same 500; a request that fails the method, language or
\* body check gets that check's answer first.
C14_MisconfiguredFails500 ==
    (svc = "function" /\ Misconfigured)
        => /\ sent = << >> /\ req = NoReq
           /\ (r.method = "POST"
               /\ (Get(r.header, "X-Language") = << >>
                   \/ ValidLanguage(Get(r.header, "X-Language")))
               /\ r.body.t = "obj")
                => /\ pc # "panic"
                   /\ pc = "done" => NotConfigured

\* a well-formed chat request has been answered 500 for the missing API key
C14_Witness ==
    /\ svc = "function" /\ pc = "done" /\ r.method = "POST" /\ r.body.t = "obj"
    /\ env["TINFOIL_INFERENCE_URL"] # << >> /\ env["TINFOIL_API_KEY"] = << >>
    /\ w.status = 500 /\ w.body = <<"TINFOIL_API_KEY not configured", "\n">>
    /\ sent = << >>

-----------------------------------------------------------------------------
(* C15: a transport failure of the upstream request.                       *)

\* Do has returned an error: the request went out and no response came
TransportFailed == svc \in {"function", "proxy"} /\ sent # << >> /\ resp = NoResp

\* the body of the response is the text of a transport error
ExposesErrorText == \E e \in {TransportError, TransportTimeout} : w.body = e.text \o <<"\n">>

NothingStreamed == rd = << >> /\ w.flushes = 0 /\ Len(sent) = 1

\* C15 as claimed: in both services a transport failure of the upstream
\* request ends with the status 502 and a body that exposes the transport
\* error text, and nothing is streamed.
C15_TransportErrorTextExposed ==
    TransportFailed
        => (pc = "done" /\ w.status = 502 /\ ExposesErrorText /\ NothingStreamed)

\* C15, amended: in both services a transport failure ends with the status
\* 502 and nothing is streamed; the Edge Relay's body is the transport error
\* text, the Body Processor's body is the fixed text "Upstream request
\* failed".
C15_TransportFailureIs502 ==
    TransportFailed
        => /\ pc = "done" /\ w.status = 502 /\ NothingStreamed
           /\ svc = "proxy" => ExposesErrorText
           /\ svc = "function" => w.body = <<"Upstream request failed", "\n">>

\* the Edge Relay has answered a timeout of the enclave with its text
C15_Witness ==
    /\ svc = "proxy" /\ TransportFailed /\ pc = "done" /\ w.status = 502
    /\ w.body = <<"context deadline exceeded", "\n">>

-----------------------------------------------------------------------------
(* C16: the upstream status.                                               *)

\* C16: in both services, once an upstream response has been obtained, the
\* status written to the caller is the upstream status, be it 2xx, 4xx or
\* 5xx; no status is written before it, and none of the relay's own in its
\* place, also when the copy of the body fails.
C16_UpstreamStatusRelayed ==
    (svc \in {"function", "proxy"} /\ Streaming)
        => /\ pc = "writeHeader" => w.status = 0
           /\ pc # "writeHeader" => w.status = resp.status

\* the Body Processor has relayed a 429 whose body broke off
C16_Witness ==
    /\ svc = "function" /\ Streaming /\ pc = "done" /\ ~eof
    /\ resp.status = 429 /\ w.status = 429

-----------------------------------------------------------------------------
(* C17: the headers of the Edge Relay's upstream request.                  *)

UpstreamHeaderNames ==
    {"Content-Type", "Accept", "Authorization", "X-Tinfoil-Request-Usage-Metrics",
     "Ehbp-Encapsulated-Key", "X-Language", "X-Allowed-Models"}

\* the header k of the upstream request is the caller's, and is not there
\* when the caller sent none (or an empty one)
CopiedVerbatim(k) ==
    IF k \in DOMAIN r.header /\ r.header[k] # << >>
    THEN k \in DOMAIN req.header /\ req.header[k] = r.header[k]
    ELSE k \notin DOMAIN req.header

\* C17: the upstream request of the Edge Relay carries no header outside
\* the seven names; Accept, Ehbp-Encapsulated-Key and X-Language are the
\* caller's, verbatim; Authorization is the relay's own key or is not there,
\* never the caller's; X-Allowed-Models is one of the two lists of the
\* policy; and X-User-Tier, Cookie and the rest do not go upstream.
C17_UpstreamHeadersWhitelisted ==
    (svc = "proxy" /\ req # NoReq)
        => /\ DOMAIN req.header \subseteq UpstreamHeaderNames
           /\ \A k \in {"Accept", "Ehbp-Encapsulated-Key", "X-Language"} :
                 CopiedVerbatim(k)
           /\ IF env["TINFOIL_API_KEY"] # << >>
              THEN "Authorization" \in DOMAIN req.header
                   /\ req.header["Authorization"]
                        = <<"Bearer ">> \o env["TINFOIL_API_KEY"]
              ELSE "Authorization" \notin DOMAIN req.header
           /\ req.header["Content-Type"] = <<"application/json">>
           /\ req.header["X-Tinfoil-Request-Usage-Metrics"] = <<"true">>
           /\ req.header["X-Allowed-Models"]
                 \in {<<"gpt-oss-120b">>, <<"gpt-oss-120b", ",", "kimi-k2-5">>}
           /\ \A i \in 1..Len(sent) : sent[i] = req

\* a request with the caller's own Authorization, a Cookie and a tier has
\* gone upstream with the relay's key, the caller's Accept and neither the
\* Cookie nor the tier
C17_Witness ==
    /\ svc = "proxy" /\ sent # << >>
    /\ Get(r.header, "Authorization") = <<"Bearer ", "client-token">>
    /\ "Cookie" \in DOMAIN r.header /\ "X-User-Tier" \in DOMAIN r.header
    /\ Get(sent[1].header, "Authorization") = <<"Bearer ", "sk-key">>
    /\ Get(sent[1].header, "Accept") = <<"text/event-stream">>
    /\ "Cookie" \notin DOMAIN sent[1].header
    /\ "X-User-Tier" \notin DOMAIN sent[1].header

-----------------------------------------------------------------------------
(* C18: the response nonce.                                                *)

\* C18: when the upstream response to the Edge Relay carries
\* Ehbp-Response-Nonce, the header set that went out to the caller with the
\* status holds the same value (as Header.Get reads it), whether the
\* response is chunked or not and whatever its status.
C18_NonceRelayed ==
    (svc = "proxy" /\ Streaming /\ "Ehbp-Response-Nonce" \in DOMAIN resp.header
        /\ pc # "writeHeader")
        => /\ w.status # 0
           /\ Get(w.sentHeader, "Ehbp-Response-Nonce")
                = resp.header["Ehbp-Response-Nonce"]

\* the nonce of a 503 that is not chunked has gone out with the status
C18_Witness ==
    /\ svc = "proxy" /\ Streaming /\ pc = "done" /\ resp.status = 503
    /\ "Transfer-Encoding" \notin DOMAIN resp.header
    /\ Get(resp.header, "Ehbp-Response-Nonce") = <<"nonce-2">>
    /\ w.status = 503 /\ Get(w.sentHeader, "Ehbp-Response-Nonce") = <<"nonce-2">>

-----------------------------------------------------------------------------
(* proxy/main.go: attestationHandler.                                      *)

AttestationURL == <<"https://atc.tinfoil.sh/attestation">>

AtServe(Reqs) ==
    /\ pc = "idle"
    /\ \E q \in Reqs : r' = q
    /\ svc' = "attestation"
    /\ pc' = "atCors"
    /\ UNCHANGED <<env, w, logs, fnLocals, req, sent, resp, copyVars>>

\* lines 175-184
attestationHandler_cors ==
    /\ svc = "attestation" /\ pc = "atCors"
    /\ logs' = Append(logs, "Received attestation request")
    /\ LET h1 == Set(w.header, "Access-Control-Allow-Origin", <<"*">>)
           h2 == Set(h1, "Access-Control-Allow-Methods", <<"GET, POST, OPTIONS">>)
           h3 == Set(h2, "Access-Control-Allow-Headers", <<"Content-Type">>)
           w1 == [w EXCEPT !.header = h3]
       IN  IF r.method = "OPTIONS"
           THEN /\ w' = WriteHeader(w1, 204)
                /\ pc' = "done"
           ELSE /\ w' = w1
                /\ pc' = "atMethod"
    /\ UNCHANGED <<env, svc, r, fnLocals, req, sent, resp, copyVars>>

\* lines 186-189
attestationHandler_method ==
    /\ svc = "attestation" /\ pc = "atMethod"
    /\ IF r.method # "GET" /\ r.method # "POST"
       THEN /\ w' = HttpError(w, <<"Method not allowed">>, 405)
            /\ pc' = "done"
       ELSE /\ pc' = "atNewRequest"
            /\ UNCHANGED w
    /\ UNCHANGED <<env, svc, r, logs, fnLocals, req, sent, resp, copyVars>>

\* an upstream request that is a POST whatever the caller's method
AtUpstreamRequestAsPost(q) ==
    [method |-> "POST", url |-> AttestationURL,
     header |-> Set(NoHeaders, "Content-Type", <<"application/json">>),
     body |-> q.body]

\* lines 191-199: the upstream request
AtUpstreamRequest(q) ==
    [method |-> q.method, url |-> AttestationURL,
     header |-> IF q.method = "POST"
                THEN Set(NoHeaders, "Content-Type", <<"application/json">>)
                ELSE NoHeaders,
     body |-> q.body]

\* lines 191-199
attestationHandler_newRequest ==
    /\ svc = "attestation" /\ pc = "atNewRequest"
    /\ LET up == AtUpstreamRequest(r)
       IN  IF URLInvalid(up.url)
           THEN /\ logs' = Append(logs, "Failed to create attestation request")
                /\ w' = HttpError(w, <<"Failed to create attestation request">>, 500)
                /\ pc' = "done"
                /\ UNCHANGED req
           ELSE /\ req' = up
                /\ pc' = "atDo"
                /\ UNCHANGED <<w, logs>>
    /\ UNCHANGED <<env, svc, r, fnLocals, sent, resp, copyVars>>

\* lines 201-207
attestationHandler_do(Outcomes) ==
    /\ svc = "attestation" /\ pc = "atDo"
    /\ sent' = Append(sent, req)
    /\ \E o \in Outcomes :
          IF o.t = "err"
          THEN /\ logs' = Append(logs, "Failed to fetch attestation bundle")
               /\ w' = HttpError(w, <<"Failed to fetch attestation bundle">>, 502)
               /\ pc' = "done"
               /\ UNCHANGED <<resp, src>>
          ELSE /\ resp' = o
               /\ src' = o.body
               /\ pc' = "atWriteHeader"
               /\ UNCHANGED <<w, logs>>
    /\ UNCHANGED <<env, svc, r, fnLocals, req, buf, rd, eof, closedAt>>

\* lines 209-213
attestationHandler_writeHeader ==
    /\ svc = "attestation" /\ pc = "atWriteHeader"
    /\ LET h1 == IF Get(resp.header, "Content-Type") # << >>
                 THEN Set(w.header, "Content-Type", Get(resp.header, "Content-Type"))
                 ELSE w.header
       IN  w' = WriteHeader([w EXCEPT !.header = h1], resp.status)
    /\ pc' = "atCopyRead"
    /\ UNCHANGED <<env, svc, r, logs, fnLocals, req, sent, resp, copyVars>>

\* lines 214-216, io.Copy(w, resp.Body): a read of resp.Body; at its end the
\* handler returns
attestationHandler_copyRead ==
    /\ svc = "attestation" /\ pc = "atCopyRead"
    /\ IF src = << >>
       THEN /\ logs' = IF resp.broken
                       THEN Append(logs, "attestation response copy failed")
                       ELSE logs
            /\ eof' = ~resp.broken
            /\ pc' = "done"
            /\ UNCHANGED <<src, buf, rd>>
       ELSE \E n \in 1..Min(MaxChunk, Len(src)) :
               /\ buf' = SubSeq(src, 1, n)
               /\ src' = SubSeq(src, n + 1, Len(src))
               /\ rd' = rd \o SubSeq(src, 1, n)
               /\ pc' = "atCopyWrite"
               /\ UNCHANGED <<logs, eof>>
    /\ UNCHANGED <<env, svc, r, w, fnLocals, req, sent, resp, closedAt>>

\* lines 214-216, io.Copy(w, resp.Body): the write of the chunk, with no
\* flush; a short write ends the copy and the handler
attestationHandler_copyWrite ==
    /\ svc = "attestation" /\ pc = "atCopyWrite"
    /\ \E n \in 0..Len(buf) :
          /\ w' = WriteN(w, buf, n)
          /\ IF n < Len(buf)
             THEN /\ logs' = Append(logs, "attestation response copy failed")
                  /\ pc' = "done"
             ELSE /\ pc' = "atCopyRead"
                  /\ UNCHANGED logs
    /\ buf' = << >>
    /\ UNCHANGED <<env, svc, r, fnLocals, req, sent, resp, src, rd, eof, closedAt>>

\* the requests to /attestation: every method, with and without a body
AtRequest(m, ct, b) ==
    [method |-> m, path |-> <<"/attestation">>, query |-> << >>,
     header |-> SetOpt(NoHeaders, "Content-Type", ct), body |-> b]

AtRequests ==
    {AtRequest(m, ct, b) :
        m \in {"GET", "POST", "OPTIONS", "PUT", "DELETE", "HEAD"},
        ct \in {Absent, <<"text/plain">>},
        b \in {<< >>, <<"bundle-request">>}}

OutcomesAttestation ==
    TransportErrors
    \cup {Response(st, h, b, br, NoHeaders) :
            st \in {200, 404, 503},
            h \in {NoHeaders, Set(NoHeaders, "Content-Type", <<"application/json">>)},
            b \in SeqsUpTo(Bytes, MaxBody), br \in BOOLEAN}

InitAttestation == InitWith(EnvsProxy)

NextAttestation ==
    \/ AtServe(AtRequests)
    \/ attestationHandler_cors
    \/ attestationHandler_method
    \/ attestationHandler_newRequest
    \/ attestationHandler_do(OutcomesAttestation)
    \/ attestationHandler_writeHeader
    \/ attestationHandler_copyRead
    \/ attestationHandler_copyWrite

SpecAttestation == InitAttestation /\ [][NextAttestation]_vars

\* C19: on the attestation route OPTIONS is answered 204 and a method other
\* than GET, POST and OPTIONS 405, both without an upstream request; a GET
\* or POST goes once, with its method and its body, to
\* https://atc.tinfoil.sh/attestation; and the status and the Content-Type
\* of the answer are the caller's, with the answer's body byte for byte (all
\* of it when the copy reached its end).
C19_AttestationRelayed ==
    svc = "attestation"
        => /\ r.method = "OPTIONS"
                => /\ sent = << >> /\ req = NoReq
                   /\ pc = "done" => (w.status = 204 /\ w.body = << >>)
           /\ r.method \notin {"GET", "POST", "OPTIONS"}
                => /\ sent = << >> /\ req = NoReq
                   /\ pc = "done" => w.status = 405
           /\ \A i \in 1..Len(sent) :
                 /\ i = 1
                 /\ sent[i].method = r.method
                 /\ sent[i].body = r.body
                 /\ sent[i].url = <<"https://atc.tinfoil.sh/attestation">>
           /\ (Streaming /\ pc # "atWriteHeader")
                => /\ w.status = resp.status
                   /\ Get(w.sentHeader, "Content-Type")
                        = Get(resp.header, "Content-Type")
                   /\ IsPrefix(w.body, resp.body)
                   /\ eof => w.body = resp.body

\* a GET with a body has been sent on as a GET with that body, and the 404
\* that came back has been relayed whole
C19_Witness ==
    /\ svc = "attestation" /\ r.method = "GET" /\ r.body = <<"bundle-request">>
    /\ pc = "done" /\ eof
    /\ sent = <<[method |-> "GET", url |-> <<"https://atc.tinfoil.sh/attestation">>,
                 header |-> NoHeaders, body |-> <<"bundle-request">>]>>
    /\ resp.status = 404 /\ w.status = 404 /\ Len(resp.body) = 3
    /\ w.body = resp.body
    /\ Get(w.sentHeader, "Content-Type") = <<"application/json">>

-----------------------------------------------------------------------------
(* C20: the phases of a request.                                           *)

\* Received 1, Validating 2, Transforming 3, Forwarding 4, Streaming 5,
\* Completed 6, by the position of the handler; 0 before the request
Phase(p) ==
    CASE p = "idle" -> 0
      [] p \in {"method", "cors", "atCors"} -> 1
      [] p \in {"language", "readBody", "unmarshal", "enclave", "atMethod"} -> 2
      [] p \in {"render", "prepend", "override", "marshal", "forward",
                "newRequest", "atNewRequest"} -> 3
      [] p \in {"do", "atDo"} -> 4
      [] p \in {"writeHeader", "copyRead", "copyWrite", "finish",
                "atWriteHeader", "atCopyRead", "atCopyWrite"} -> 5
      [] p \in {"done", "panic"} -> 6

\* the answer to a CORS preflight, which is no failure
Preflight == svc # "function" /\ r.method = "OPTIONS"

\* a step never goes back to an earlier phase, and a step that ends the
\* request from Received, Validating or Transforming leaves an error status
\* and no upstream request
PhaseStep ==
    /\ Phase(pc') >= Phase(pc)
    /\ (Phase(pc) \in 1..3 /\ Phase(pc') = 6)
          => /\ sent' = << >>
             /\ IF Preflight THEN w'.status = 204 ELSE w'.status \in 400..599

\* C20: a request goes through Received, Validating, Transforming,
\* Forwarding, Streaming and Completed in that order and never back; the
\* upstream request is issued at most once, and only from Forwarding; a
\* failure of validation or transformation takes the request straight to
\* Completed with an error status and nothing is forwarded for it.
C20_PhasesInOrder ==
    /\ [](Len(sent) <= 1)
    /\ [](sent # << >> => Phase(pc) >= 4)
    /\ []((HandlerEnded /\ sent = << >> /\ ~Preflight)
            => (pc = "done" /\ w.status \in 400..599))
    /\ [][PhaseStep]_vars

-----------------------------------------------------------------------------
(* C21: back-pressure.                                                     *)

\* the copy loop of a chat handler is running or has run
Copying == svc \in {"function", "proxy"} /\ Streaming

\* C21: the relay reads the next chunk only when the last one has been
\* written and flushed: when it is about to read, every byte read so far is
\* with the caller; while a chunk waits, it is the only bytes that are read
\* and not written; at every moment these are at most one buffer (MaxChunk),
\* and every stretch of at most one buffer that went out was flushed.
C21_BackPressured ==
    Copying
        => /\ Len(rd) - Len(w.body) <= MaxChunk
           /\ pc = "copyRead" => (rd = w.body /\ buf = << >>)
           /\ pc = "copyWrite" => (rd = w.body \o buf /\ Len(buf) <= MaxChunk)
           /\ Len(w.body) <= w.flushes * MaxChunk

\* three bytes have come in two chunks, and the second was read only after
\* the first had gone out and been flushed
C21_Witness ==
    /\ Copying /\ pc = "copyWrite" /\ Len(resp.body) = 3 /\ Len(rd) = 3
    /\ Len(w.body) = 2 /\ Len(buf) = 1 /\ w.flushes = 1

-----------------------------------------------------------------------------
(* Both services over a caller that goes away while a response streams.    *)

OutcomesCancel ==
    {Response(200, EventStream, b, br, NoHeaders) :
        b \in SeqsUpTo(Bytes, MaxBody), br \in BOOLEAN}

InitCancel == InitWith(EnvsStream)

NextCancel ==
    \/ FnServe(StreamFnRequests)
    \/ PxServe(StreamPxRequests)
    \/ FnSteps
    \/ PxSteps
    \/ chatHandler_do(OutcomesCancel)
    \/ proxyHandler_do(OutcomesCancel)
    \/ chatHandler_writeHeader
    \/ proxyHandler_writeHeader
    \/ CallerDisconnects
    \/ io_Copy_read
    \/ io_Copy_readCanceled
    \/ io_Copy_write
    \/ chatHandler_finish
    \/ proxyHandler_trailer

SpecCancel == InitCancel /\ [][NextCancel]_vars

-----------------------------------------------------------------------------
(* The Body Processor under an environment that changes after startup.     *)

\* os.Setenv / os.Unsetenv somewhere in the process: the environment that
\* the handler's next os.Getenv reads is another one
os_Setenv(Envs) ==
    /\ \E e \in Envs : e # env /\ env' = e
    /\ UNCHANGED <<svc, pc, r, w, logs, fnLocals, req, sent, resp, copyVars>>

InitSetenv == InitWith(EnvsOne)

NextSetenv ==
    \/ FnServe(StreamFnRequests)
    \/ FnSteps
    \/ chatHandler_do(OutcomesFew)
    \/ FnTail
    \/ os_Setenv(EnvsFn)

SpecSetenv == InitSetenv /\ [][NextSetenv]_vars

\* C23: a request is handled under the configuration of the startup (here:
\* no template, no model override, the inference URL and the API key set),
\* whatever becomes of the environment afterwards: the default prompt is
\* rendered, the client's model is kept, the request goes to the startup URL
\* with the startup key, and it is never refused as not configured.
C23_ConfigFromStartup ==
    svc = "function"
        => /\ pc \in {"prepend", "override", "marshal", "forward", "do"}
                => systemPrompt
                     = <<"You are a helpful assistant. Always respond in ">>
                       \o language \o <<".">>
           /\ req # NoReq
                => /\ req.url = <<"https://inference.example", "/v1/chat/completions">>
                   /\ req.header["Authorization"] = <<"Bearer ", "sk-key">>
                   /\ req.body.o["model"] = JStr(<<"gpt-oss-120b">>)
           /\ pc = "done" => sent # << >>

-----------------------------------------------------------------------------
(* C24: the Edge Relay and the request body.                               *)

\* the upstream headers as the inbound headers h and the configured key
\* determine them
HeadersFrom(h, key) ==
    LET has(k) == k \in DOMAIN h /\ h[k] # << >>
        names == {"Content-Type", "X-Tinfoil-Request-Usage-Metrics", "X-Allowed-Models"}
                 \cup {k \in {"Accept", "Ehbp-Encapsulated-Key", "X-Language"} : has(k)}
                 \cup (IF key # << >> THEN {"Authorization"} ELSE {})
    IN  [k \in names |->
            CASE k = "Content-Type" -> <<"application/json">>
              [] k = "X-Tinfoil-Request-Usage-Metrics" -> <<"true">>
              [] k = "X-Allowed-Models" ->
                    IF "X-User-Tier" \in DOMAIN h /\ h["X-User-Tier"] = <<"paid">>
                    THEN <<"gpt-oss-120b", ",", "kimi-k2-5">>
                    ELSE <<"gpt-oss-120b">>
              [] k = "Authorization" -> <<"Bearer ">> \o key
              [] OTHER -> h[k]]

\* what the relay decides for a request of method m with the headers h:
\* the status it answers with by itself, or 0 when it forwards
DecisionFrom(m, h) ==
    IF m = "OPTIONS" THEN 204
    ELSE IF "X-Tinfoil-Enclave-Url" \notin DOMAIN h
            \/ h["X-Tinfoil-Enclave-Url"] = << >> THEN 400
    ELSE IF h["X-Tinfoil-Enclave-Url"] = <<"http://[::1">> THEN 500
    ELSE 0

\* the relay is past its own checks
PxDecided == svc = "proxy" /\ pc \notin {"idle", "cors", "enclave", "newRequest"}

\* C24: what the Edge Relay decides and what it sends upstream is a function
\* of the method, the path, the headers and the configuration, in which the
\* body does not occur: two requests that differ in the body alone get the
\* same decision, the same upstream URL and the same upstream headers; and
\* the body goes upstream as it came.
C24_BodyNeverRead ==
    PxDecided
        => IF DecisionFrom(r.method, r.header) # 0
           THEN /\ pc = "done" /\ w.status = DecisionFrom(r.method, r.header)
                /\ req = NoReq /\ sent = << >>
           ELSE /\ req # NoReq
                /\ req.url = r.header["X-Tinfoil-Enclave-Url"] \o r.path
                /\ req.header = HeadersFrom(r.header, env["TINFOIL_API_KEY"])
                /\ req.body = r.body
                /\ \A i \in 1..Len(sent) : sent[i] = req

\* an empty body has gone upstream under the headers of any other body
C24_Witness ==
    /\ PxDecided /\ r.method = "POST" /\ r.body = << >> /\ sent # << >>
    /\ sent[1].body = << >>
    /\ sent[1].header["Content-Type"] = <<"application/json">>
    /\ sent[1].header["X-Allowed-Models"] = <<"gpt-oss-120b", ",", "kimi-k2-5">>

-----------------------------------------------------------------------------
(* C25: a body without a `messages` array.                                 *)

\* a POST with an acceptable language and a JSON-object body whose
\* `messages` is absent or is no array
NoMessagesArray ==
    /\ svc = "function" /\ r.method = "POST"
    /\ (Get(r.header, "X-Language") = << >>
        \/ ValidLanguage(Get(r.header, "X-Language")))
    /\ r.body.t = "obj" /\ ~HasMessagesArray(r.body)

\* C25: a JSON-object body whose `messages` is absent or no array is not
\* rejected: under a usable configuration it is forwarded, its `messages`
\* being the one system message, and every other top-level key keeps its
\* value (`model` excepted under an override).
C25_MessagesDegradeToEmpty ==
    NoMessagesArray
        => /\ (pc = "done" /\ ~Misconfigured
               /\ env["TINFOIL_INFERENCE_URL"] # <<"http://[::1">>)
                => sent # << >>
           /\ sent # << >>
                => /\ "messages" \in DOMAIN sent[1].body.o
                   /\ sent[1].body.o["messages"]
                        = JArr(<<SystemMessageDoc(systemPrompt)>>)
                   /\ OthersUnchanged(r.body, sent[1].body)

-----------------------------------------------------------------------------
(* C26: the CORS headers of the Edge Relay.                                *)

\* the names a comma-separated header value lists
Listed(v) == {v[i] : i \in 1..Len(v)}

\* C26: every response of the Edge Relay's chat route, be it the 204 of a
\* preflight, a 400, a 500, a 502 or an upstream response, went out with
\* Access-Control-Allow-Origin *, Allow-Methods "POST, OPTIONS", an
\* Allow-Headers list holding the seven request headers, and Expose-Headers
\* holding Ehbp-Response-Nonce.
C26_CorsOnEveryResponse ==
    (svc = "proxy" /\ w.status # 0)
        => /\ {"Access-Control-Allow-Origin", "Access-Control-Allow-Methods",
               "Access-Control-Allow-Headers", "Access-Control-Expose-Headers"}
                 \subseteq DOMAIN w.sentHeader
           /\ w.sentHeader["Access-Control-Allow-Origin"] = <<"*">>
           /\ w.sentHeader["Access-Control-Allow-Methods"] = <<"POST, OPTIONS">>
           /\ {"Ehbp-Encapsulated-Key", "X-Language", "X-Tinfoil-Enclave-Url",
               "X-User-Tier", "Accept", "Authorization", "Content-Type"}
                 \subseteq Listed(w.sentHeader["Access-Control-Allow-Headers"])
           /\ "Ehbp-Response-Nonce"
                 \in Listed(w.sentHeader["Access-Control-Expose-Headers"])

\* the 502 of a transport failure has gone out with the CORS headers
C26_Witness ==
    /\ svc = "proxy" /\ pc = "done" /\ w.status = 502 /\ sent # << >>
    /\ Get(w.sentHeader, "Access-Control-Allow-Origin") = <<"*">>
    /\ Get(w.sentHeader, "Content-Type") = <<"text/plain; charset=utf-8">>

-----------------------------------------------------------------------------
(* C27: one log line per failure path.                                     *)

\* the handler itself has answered with a failure: a 4xx or 5xx that is not
\* the relayed status of an upstream response
HandlerFailed == pc = "done" /\ w.status >= 400 /\ resp = NoResp

\* the log lines that describe a failure (log.Printf / log.Println calls in
\* the error branches of the two handlers)
FailureLines ==
    {"Failed to read request body", "Failed to parse request body",
     "Failed to marshal modified body", "Failed to create upstream request",
     "Upstream request failed",
     "Error: X-Tinfoil-Enclave-Url header not provided",
     "Failed to create attestation request",
     "Failed to fetch attestation bundle"}

FailureLogged == {i \in 1..Len(logs) : logs[i] \in FailureLines}

\* C27: when a handler has answered with a failure of its own (bad method,
\* invalid language, unreadable body, malformed JSON, missing configuration,
\* missing destination header, request construction error, transport
\* failure), the log holds one line describing that failure.
C27_FailureLogged ==
    HandlerFailed => Cardinality(FailureLogged) = 1

-----------------------------------------------------------------------------
(* C28: the caller chooses the destination of the Edge Relay.              *)

\* the value of the caller's X-Tinfoil-Enclave-Url header
Destination == Get(r.header, enclaveURLHeader)

\* C28: the Edge Relay sends the upstream request to the caller's
\* X-Tinfoil-Enclave-Url value followed by the inbound path, without the
\* query string, whatever the value is: every request other than a preflight
\* whose value is non-empty and makes a URL is sent there, and with
\* TINFOIL_API_KEY configured it carries Authorization: Bearer <key>.
C28_CallerChoosesDestination ==
    svc = "proxy"
        => /\ \A i \in 1..Len(sent) :
                /\ sent[i].url = Destination \o r.path
                /\ Getenv("TINFOIL_API_KEY") # << >>
                     => Get(sent[i].header, "Authorization")
                            = <<"Bearer ">> \o Getenv("TINFOIL_API_KEY")
           /\ (/\ pc = "done"
               /\ r.method # "OPTIONS"
               /\ Destination # << >>
               /\ ~URLInvalid(Destination \o r.path))
                => Len(sent) = 1

\* a request with a query string and a destination of the caller's own has
\* been sent there with the operator's key
C28_Witness ==
    /\ svc = "proxy" /\ pc = "done" /\ Len(sent) = 1
    /\ Destination = OtherURL
    /\ r.query = <<"model=kimi-k2-5">>
    /\ sent[1].url = OtherURL \o ChatPath
    /\ Getenv("TINFOIL_API_KEY") # << >>
    /\ Get(sent[1].header, "Authorization") = <<"Bearer ">> \o Getenv("TINFOIL_API_KEY")

=============================================================================
